---- MODULE Spec2Model ----
(***************************************************************************)
(* Model of EXPERIMENT/Ex1.cpp, the UNIX permission / umask calculator.    *)
(* A string is a sequence of one-character strings; an int is a 32-bit     *)
(* two's complement integer.  One run of main() is the state machine       *)
(* AwaitMode -> AwaitUmask -> Convert -> Compute -> Report -> Done, with   *)
(* Failed as the terminal state of every "return 1".                       *)
(***************************************************************************)
EXTENDS Integers, Sequences, FiniteSets, TLC

\* ---------------------------------------------------------------- bounds
\* longest token that cin >> may deliver
MaxLen == 4
\* largest argument handed to the pure formatting functions
MaxValue == 1023

\* ------------------------------------------------------ program constants
\* 0777
PermMask == 511
\* s.size() != 4
OctalLen == 4
\* value * 8
Base == 8
\* setw(4)
OctalWidth == 4
\* width of int
WordBits == 32

\* --------------------------------------------------------------- characters
\* ASCII code of the characters the model uses
Ord(c) ==
    CASE c = "-" -> 45 [] c = "/" -> 47
      [] c = "0" -> 48 [] c = "1" -> 49 [] c = "2" -> 50 [] c = "3" -> 51
      [] c = "4" -> 52 [] c = "5" -> 53 [] c = "6" -> 54 [] c = "7" -> 55
      [] c = "8" -> 56 [] c = "9" -> 57
      [] c = "a" -> 97 [] c = "b" -> 98 [] c = "c" -> 99
      [] c = "r" -> 114 [] c = "w" -> 119 [] c = "x" -> 120

\* the character an ostream writes for one octal digit
DigitChar(d) == <<"0", "1", "2", "3", "4", "5", "6", "7">>[d + 1]

\* characters the bounded tokens are built from: one below '0', three octal
\* digits, one above '7'
Alphabet == {"/", "0", "3", "6", "8"}

\* the inputs the program's documentation and scenarios name
Examples ==
    { <<"0", "6", "4", "4">>, <<"0", "0", "2", "2">>, <<"0", "7", "7", "7">>,
      <<"0", "0", "0", "0">>, <<"9", "9", "9">>, <<"0", "a", "b", "c">> }

\* what one cin >> can leave in the string: the empty string at end of input,
\* otherwise a token
Tokens == (UNION { [1..n -> Alphabet] : n \in 0..MaxLen }) \cup Examples

\* ------------------------------------------------------ int and its operators
\* bit i of the two's complement int x
Bit(x, i) == IF i = WordBits - 1 THEN x < 0 ELSE (x \div (2 ^ i)) % 2 = 1

RECURSIVE AndBits(_, _, _)
AndBits(a, b, i) ==
    IF i < 0 THEN 0
    ELSE (IF Bit(a, i) /\ Bit(b, i) THEN 2 ^ i ELSE 0) + AndBits(a, b, i - 1)

\* a & b
BitAnd(a, b) ==
    (IF Bit(a, WordBits - 1) /\ Bit(b, WordBits - 1) THEN (-(2 ^ (WordBits - 2))) * 2 ELSE 0)
        + AndBits(a, b, WordBits - 2)

\* ~a
BitNot(a) == (-a) - 1

\* a >> n
Shr(a, n) == a \div (2 ^ n)

\* ------------------------------------------------------------ pure functions
RECURSIVE AllOctal(_, _)
AllOctal(s, i) ==
    IF i > Len(s) THEN TRUE
    ELSE IF Ord(s[i]) < Ord("0") \/ Ord(s[i]) > Ord("7") THEN FALSE
    ELSE AllOctal(s, i + 1)

RECURSIVE NoneAboveSeven(_, _)
NoneAboveSeven(s, i) ==
    IF i > Len(s) THEN TRUE
    ELSE IF Ord(s[i]) > Ord("7") THEN FALSE
    ELSE NoneAboveSeven(s, i + 1)

\* is_valid_octal4 without the lower comparison c < '0'
is_valid_octal4_NoLowerCheck(s) ==
    IF Len(s) # OctalLen THEN FALSE ELSE NoneAboveSeven(s, 1)

is_valid_octal4(s) ==
    IF Len(s) # OctalLen THEN FALSE ELSE AllOctal(s, 1)

RECURSIVE OctalLoop(_, _, _)
OctalLoop(s, i, value) ==
    IF i > Len(s) THEN value
    ELSE OctalLoop(s, i + 1, value * Base + (Ord(s[i]) - Ord("0")))

RECURSIVE DecimalLoop(_, _, _)
DecimalLoop(s, i, value) ==
    IF i > Len(s) THEN value
    ELSE DecimalLoop(s, i + 1, value * 10 + (Ord(s[i]) - Ord("0")))

\* octal_to_int multiplying by 10 instead of 8
octal_to_int_Decimal(s) == DecimalLoop(s, 1, 0)

octal_to_int(s) == OctalLoop(s, 1, 0)

\* operator<< of a non-negative int under std::oct
RECURSIVE OctDigits(_)
OctDigits(n) ==
    IF n < Base THEN <<DigitChar(n)>>
    ELSE OctDigits(n \div Base) \o <<DigitChar(n % Base)>>

\* setfill(c) << setw(w): pad on the left up to width w, never truncate
RECURSIVE PadLeft(_, _, _)
PadLeft(s, w, c) == IF Len(s) >= w THEN s ELSE PadLeft(<<c>> \o s, w, c)

int_to_octal4(value) ==
    PadLeft(OctDigits(BitAnd(value, PermMask)), OctalWidth, "0")

triad_to_rwx(bits) ==
    << IF BitAnd(bits, 4) # 0 THEN "r" ELSE "-",
       IF BitAnd(bits, 2) # 0 THEN "w" ELSE "-",
       IF BitAnd(bits, 1) # 0 THEN "x" ELSE "-" >>

\* mode_to_symbolic with the group triad shifted by 4 instead of 3
mode_to_symbolic_GroupShift(mode) ==
    LET user  == BitAnd(Shr(mode, 6), 7)
        group == BitAnd(Shr(mode, 4), 7)
        other == BitAnd(Shr(mode, 0), 7)
    IN  triad_to_rwx(user) \o triad_to_rwx(group) \o triad_to_rwx(other)

mode_to_symbolic(mode) ==
    LET user  == BitAnd(Shr(mode, 6), 7)
        group == BitAnd(Shr(mode, 3), 7)
        other == BitAnd(Shr(mode, 0), 7)
    IN  triad_to_rwx(user) \o triad_to_rwx(group) \o triad_to_rwx(other)

\* the effective computation without the complement of umask
EffectiveOf_NoComplement(m, u) == BitAnd(BitAnd(m, u), PermMask)

\* int effective = (mode & (~umask)) & 0777;
EffectiveOf(m, u) == BitAnd(BitAnd(m, BitNot(u)), PermMask)

\* ------------------------------------------------------------------- output
NoText == <<>>

PromptOut(field) ==
    [tag |-> "PROMPT", code |-> field, msg |-> "", text |-> NoText]

\* error_out(code, msg): one line "ERROR: <code>: <msg>"
error_out(code, msg) ==
    [tag |-> "ERROR", code |-> code, msg |-> msg, text |-> NoText]

\* one line "OK: <label> <text>"
OkOut(label, text) ==
    [tag |-> "OK", code |-> label, msg |-> "", text |-> text]

ModeOctalMsg == "mode must be 4-digit octal (0000-0777)"
UmaskOctalMsg == "umask must be 4-digit octal (0000-0777)"
ModeRangeMsg == "mode out of range (0000-0777)"
UmaskRangeMsg == "umask out of range (0000-0777)"

\* -------------------------------------------------------------------- state
VARIABLES pc, modeStr, umaskStr, mode, umask, effective, out, exitCode, nread,
          fpc, v, oct4, back, sym

vars == <<pc, modeStr, umaskStr, mode, umask, effective, out, exitCode, nread,
          fpc, v, oct4, back, sym>>

mainVars == <<pc, modeStr, umaskStr, mode, umask, effective, out, exitCode, nread>>
fnVars == <<fpc, v, oct4, back, sym>>

\* the process is still running: no exit status yet
Running == -1

MainInit ==
    /\ pc = "AwaitMode"
    /\ modeStr = <<>>
    /\ umaskStr = <<>>
    /\ mode = 0
    /\ umask = 0
    /\ effective = 0
    /\ out = <<>>
    /\ exitCode = Running
    /\ nread = 0

FnIdle ==
    /\ fpc = "idle"
    /\ v = 0
    /\ oct4 = <<>>
    /\ back = 0
    /\ sym = <<>>

Init == MainInit /\ FnIdle

\* ReadMode without the "return 1" after the E_OCTAL report
ReadMode_NoReturn ==
    /\ pc = "AwaitMode"
    /\ \E tok \in Tokens :
        /\ modeStr' = tok
        /\ nread' = nread + 1
        /\ IF ~is_valid_octal4(tok)
           THEN out' = out \o <<PromptOut("mode"), error_out("E_OCTAL", ModeOctalMsg)>>
           ELSE out' = out \o <<PromptOut("mode")>>
        /\ exitCode' = exitCode
        /\ pc' = "AwaitUmask"
    /\ UNCHANGED <<umaskStr, mode, umask, effective>>
    /\ UNCHANGED fnVars

\* lines 88-96: prompt, read and validate MODE
ReadMode ==
    /\ pc = "AwaitMode"
    /\ \E tok \in Tokens :
        /\ modeStr' = tok
        /\ nread' = nread + 1
        /\ IF ~is_valid_octal4(tok)
           THEN /\ out' = out \o <<PromptOut("mode"), error_out("E_OCTAL", ModeOctalMsg)>>
                /\ exitCode' = 1
                /\ pc' = "Failed"
           ELSE /\ out' = out \o <<PromptOut("mode")>>
                /\ exitCode' = exitCode
                /\ pc' = "AwaitUmask"
    /\ UNCHANGED <<umaskStr, mode, umask, effective>>
    /\ UNCHANGED fnVars

\* ReadUmask without the "return 1" after the E_OCTAL report
ReadUmask_NoReturn ==
    /\ pc = "AwaitUmask"
    /\ \E tok \in Tokens :
        /\ umaskStr' = tok
        /\ nread' = nread + 1
        /\ IF ~is_valid_octal4(tok)
           THEN out' = out \o <<PromptOut("umask"), error_out("E_OCTAL", UmaskOctalMsg)>>
           ELSE out' = out \o <<PromptOut("umask")>>
        /\ exitCode' = exitCode
        /\ pc' = "Convert"
    /\ UNCHANGED <<modeStr, mode, umask, effective>>
    /\ UNCHANGED fnVars

\* lines 98-106: prompt, read and validate UMASK
ReadUmask ==
    /\ pc = "AwaitUmask"
    /\ \E tok \in Tokens :
        /\ umaskStr' = tok
        /\ nread' = nread + 1
        /\ IF ~is_valid_octal4(tok)
           THEN /\ out' = out \o <<PromptOut("umask"), error_out("E_OCTAL", UmaskOctalMsg)>>
                /\ exitCode' = 1
                /\ pc' = "Failed"
           ELSE /\ out' = out \o <<PromptOut("umask")>>
                /\ exitCode' = exitCode
                /\ pc' = "Convert"
    /\ UNCHANGED <<modeStr, mode, umask, effective>>
    /\ UNCHANGED fnVars

\* Convert without the two range checks
Convert_NoRangeCheck ==
    /\ pc = "Convert"
    /\ mode' = octal_to_int(modeStr)
    /\ umask' = octal_to_int(umaskStr)
    /\ pc' = "Compute"
    /\ UNCHANGED <<modeStr, umaskStr, effective, out, exitCode, nread>>
    /\ UNCHANGED fnVars

\* lines 108-120: convert both strings, then the two range checks
Convert ==
    /\ pc = "Convert"
    /\ mode' = octal_to_int(modeStr)
    /\ umask' = octal_to_int(umaskStr)
    /\ IF mode' > PermMask
       THEN /\ out' = out \o <<error_out("E_RANGE", ModeRangeMsg)>>
            /\ exitCode' = 1
            /\ pc' = "Failed"
       ELSE IF umask' > PermMask
       THEN /\ out' = out \o <<error_out("E_RANGE", UmaskRangeMsg)>>
            /\ exitCode' = 1
            /\ pc' = "Failed"
       ELSE /\ out' = out
            /\ exitCode' = exitCode
            /\ pc' = "Compute"
    /\ UNCHANGED <<modeStr, umaskStr, effective, nread>>
    /\ UNCHANGED fnVars

\* line 132
Compute ==
    /\ pc = "Compute"
    /\ effective' = EffectiveOf(mode, umask)
    /\ pc' = "Report"
    /\ UNCHANGED <<modeStr, umaskStr, mode, umask, out, exitCode, nread>>
    /\ UNCHANGED fnVars

\* lines 134-138
Report ==
    /\ pc = "Report"
    /\ out' = out \o << OkOut("EFFECTIVE", int_to_octal4(effective)),
                        OkOut("SYMBOLIC", mode_to_symbolic(effective)) >>
    /\ exitCode' = 0
    /\ pc' = "Done"
    /\ UNCHANGED <<modeStr, umaskStr, mode, umask, effective, nread>>
    /\ UNCHANGED fnVars

Next == ReadMode \/ ReadUmask \/ Convert \/ Compute \/ Report

Spec == Init /\ [][Next]_vars

\* ------------------------------------------- the pure functions on their own
FnInit ==
    /\ MainInit
    /\ fpc = "start"
    /\ v \in 0..MaxValue
    /\ oct4 = <<>>
    /\ back = 0
    /\ sym = <<>>

FnRender ==
    /\ fpc = "start"
    /\ oct4' = int_to_octal4(v)
    /\ fpc' = "rendered"
    /\ UNCHANGED <<v, back, sym>>
    /\ UNCHANGED mainVars

FnParse ==
    /\ fpc = "rendered"
    /\ back' = octal_to_int(oct4)
    /\ fpc' = "parsed"
    /\ UNCHANGED <<v, oct4, sym>>
    /\ UNCHANGED mainVars

FnSymbolic ==
    /\ fpc = "parsed"
    /\ sym' = mode_to_symbolic(v)
    /\ fpc' = "done"
    /\ UNCHANGED <<v, oct4, back>>
    /\ UNCHANGED mainVars

FnNext == FnRender \/ FnParse \/ FnSymbolic

FnSpec == FnInit /\ [][FnNext]_vars

\* ======================================================= stated properties
\* The reference notions below are written from the documented contract, in
\* plain arithmetic, without the program's loops and bit operators.

OctalChars == {"0", "1", "2", "3", "4", "5", "6", "7"}

WellFormed(s) == Len(s) = 4 /\ \A i \in 1..Len(s) : s[i] \in OctalChars

DigitOf(c) ==
    CASE c = "0" -> 0 [] c = "1" -> 1 [] c = "2" -> 2 [] c = "3" -> 3
      [] c = "4" -> 4 [] c = "5" -> 5 [] c = "6" -> 6 [] c = "7" -> 7

\* digit[0]*8^3 + digit[1]*8^2 + digit[2]*8 + digit[3]
SpecValue(s) ==
    DigitOf(s[1]) * 512 + DigitOf(s[2]) * 64 + DigitOf(s[3]) * 8 + DigitOf(s[4])

\* the nine permission bits set in m and clear in u
RECURSIVE SpecMasked(_, _, _)
SpecMasked(m, u, i) ==
    IF i < 0 THEN 0
    ELSE (IF ((m \div (2 ^ i)) % 2 = 1) /\ ((u \div (2 ^ i)) % 2 = 0) THEN 2 ^ i ELSE 0)
         + SpecMasked(m, u, i - 1)

SpecEffective(ms, us) == SpecMasked(SpecValue(ms), SpecValue(us), 8)

OctTable == <<"0", "1", "2", "3", "4", "5", "6", "7">>

SpecOctal4(e) ==
    << OctTable[((e \div 512) % 8) + 1], OctTable[((e \div 64) % 8) + 1],
       OctTable[((e \div 8) % 8) + 1], OctTable[(e % 8) + 1] >>

\* triad k (0 = user, 1 = group, 2 = other) of a permission value
TriadOf(x, k) == (x \div (8 ^ (2 - k))) % 8

\* x with triad k replaced by t
WithTriad(x, k, t) == x - TriadOf(x, k) * (8 ^ (2 - k)) + t * (8 ^ (2 - k))

SpecTriadChars(t) ==
    << IF (t \div 4) % 2 = 1 THEN "r" ELSE "-",
       IF (t \div 2) % 2 = 1 THEN "w" ELSE "-",
       IF t % 2 = 1 THEN "x" ELSE "-" >>

Terminated == pc \in {"Done", "Failed"}

ErrLines == {i \in DOMAIN out : out[i].tag = "ERROR"}
OkLines == {i \in DOMAIN out : out[i].tag = "OK"}
PromptLines == {i \in DOMAIN out : out[i].tag = "PROMPT"}

ModeRejected == error_out("E_OCTAL", ModeOctalMsg) \in {out[i] : i \in DOMAIN out}
UmaskRejected == error_out("E_OCTAL", UmaskOctalMsg) \in {out[i] : i \in DOMAIN out}

Str0644 == <<"0", "6", "4", "4">>
Str0022 == <<"0", "0", "2", "2">>
Str0604 == <<"0", "6", "0", "4">>
SymRwR == <<"r", "w", "-", "-", "-", "-", "r", "-", "-">>
SymRwRR == <<"r", "w", "-", "r", "-", "-", "r", "-", "-">>

\* C1: every pair of strings the validator accepts (4 characters, each
\* '0'..'7') ends in a success report whose effective value is
\* octal_to_int(m) & ~octal_to_int(u) & 511, unchanged by re-masking.
C1_EffectiveForAllValid ==
    (Terminated /\ nread = 2 /\ WellFormed(modeStr) /\ WellFormed(umaskStr))
        => /\ pc = "Done"
           /\ effective = SpecEffective(modeStr, umaskStr)
           /\ effective % 512 = effective
           /\ out[Len(out) - 1] = OkOut("EFFECTIVE", SpecOctal4(effective))

\* C2: mode "0644" with umask "0022" ends in success and prints
\* "OK: EFFECTIVE 0604" then "OK: SYMBOLIC rw----r--".
C2_Scenario0644 ==
    (Terminated /\ nread = 2 /\ modeStr = Str0644 /\ umaskStr = Str0022)
        => /\ pc = "Done"
           /\ exitCode = 0
           /\ Len(out) = 4
           /\ out[3] = OkOut("EFFECTIVE", Str0604)
           /\ out[4] = OkOut("SYMBOLIC", SymRwR)

\* C2 (amended): mode "0644" with umask "0022" ends in success and prints
\* "OK: EFFECTIVE 0644" then "OK: SYMBOLIC rw-r--r--": no bit of 0022 is set
\* in 0644, so the umask removes nothing.
C2_Scenario0644_Amended ==
    (Terminated /\ nread = 2 /\ modeStr = Str0644 /\ umaskStr = Str0022)
        => /\ pc = "Done"
           /\ exitCode = 0
           /\ Len(out) = 4
           /\ out[3] = OkOut("EFFECTIVE", Str0644)
           /\ out[4] = OkOut("SYMBOLIC", SymRwRR)

C2_Witness ==
    pc = "Done" /\ modeStr = Str0644 /\ umaskStr = Str0022 /\ effective = 420

\* C3: E_RANGE is unreachable: every accepted string parses to at most 511
\* and no run reports E_RANGE.
C3_NoRangeError ==
    /\ \A i \in DOMAIN out : out[i].code # "E_RANGE"
    /\ (pc \in {"Compute", "Report", "Done", "Failed"} /\ nread = 2 /\ ~UmaskRejected)
           => (mode <= 511 /\ umask <= 511)

C5_ModeFailureSkipsRest ==
    (nread >= 1 /\ ~WellFormed(modeStr))
        => /\ pc = "Failed"
           /\ nread = 1
           /\ umaskStr = <<>>
           /\ PromptOut("umask") \notin {out[i] : i \in DOMAIN out}
           /\ OkLines = {}
           /\ effective = 0
           /\ ~ENABLED Next

C5_Witness ==
    pc = "Failed" /\ modeStr = <<"9", "9", "9">> /\ nread = 1 /\ Len(out) = 2

\* the mode field fails one of its checks (format, or value above 511)
ModeFieldFails == ~WellFormed(modeStr) \/ SpecValue(modeStr) > 511

IsModeError(l) == l = error_out("E_OCTAL", ModeOctalMsg) \/ l = error_out("E_RANGE", ModeRangeMsg)
IsUmaskError(l) == l = error_out("E_OCTAL", UmaskOctalMsg) \/ l = error_out("E_RANGE", UmaskRangeMsg)

\* C6: errors are fail-fast by field order: when the mode field fails any
\* check (E_OCTAL or E_RANGE) the one error reported is the mode field's,
\* whatever the umask is; a umask error is reported only when the mode field
\* passed all its checks.
C6_FailFastByField ==
    /\ (Terminated /\ ModeFieldFails)
           => (Cardinality(ErrLines) = 1 /\ \A i \in ErrLines : IsModeError(out[i]))
    /\ (\E i \in ErrLines : IsUmaskError(out[i])) => ~ModeFieldFails

SymChars == {"r", "w", "x", "-"}

C7_OutcomeInv ==
    /\ exitCode \in {Running, 0, 1}
    /\ Terminated <=> exitCode # Running
    /\ Cardinality(ErrLines) <= 1
    /\ (ErrLines = {} \/ OkLines = {})
    /\ ~Terminated => (ErrLines = {} /\ OkLines = {})
    /\ pc = "Done"
           => /\ exitCode = 0
              /\ ErrLines = {}
              /\ OkLines = {Len(out) - 1, Len(out)}
              /\ out[Len(out) - 1].code = "EFFECTIVE"
              /\ Len(out[Len(out) - 1].text) = 4
              /\ \A j \in 1..4 : out[Len(out) - 1].text[j] \in OctalChars
              /\ out[Len(out)].code = "SYMBOLIC"
              /\ Len(out[Len(out)].text) = 9
              /\ \A j \in 1..9 : out[Len(out)].text[j] \in SymChars
    /\ pc = "Failed"
           => /\ exitCode = 1
              /\ OkLines = {}
              /\ ErrLines = {Len(out)}
              /\ out[Len(out)].code \in {"E_OCTAL", "E_RANGE"}
    /\ Terminated <=> ~ENABLED Next

\* how far main() has got
PcRank(p) ==
    CASE p = "AwaitMode" -> 0 [] p = "AwaitUmask" -> 1 [] p = "Convert" -> 2
      [] p = "Compute" -> 3 [] p = "Report" -> 4 [] p = "Done" -> 5 [] p = "Failed" -> 5

\* C7: every run terminates, and in exactly one of two outcomes: the two OK
\* lines (EFFECTIVE then SYMBOLIC), exit 0 and no ERROR line; or exactly one
\* ERROR line with code E_OCTAL or E_RANGE, exit 1 and no OK line.
\* Termination: a run that has not ended always has a next statement, every
\* statement moves main() strictly forward, and only Done and Failed end it.
C7_ExactlyOneOutcome ==
    []C7_OutcomeInv /\ [][PcRank(pc') > PcRank(pc)]_vars

C7_Witness ==
    pc = "Failed" /\ Len(out) = 3 /\ out[3] = error_out("E_RANGE", UmaskRangeMsg)

\* C8: for every v in [0, 511], octal_to_int(int_to_octal4(v)) = v.
C8_RoundTrip ==
    (fpc \in {"parsed", "done"} /\ v <= 511) => back = v

C8_Witness ==
    fpc = "parsed" /\ v = 511 /\ oct4 = <<"0", "7", "7", "7">> /\ back = 511

\* C9: for every v in [0, 511], mode_to_symbolic(v) has exactly 9 characters,
\* the user, group and other triads in that order, each rendered r/w/x for bit
\* values 4/2/1 and '-' otherwise; changing one triad's bits leaves the other
\* triads' characters unchanged.
C9_SymbolicDecomposition ==
    (fpc = "done" /\ v <= 511)
        => /\ Len(sym) = 9
           /\ \A k \in 0..2 :
                SubSeq(sym, 3 * k + 1, 3 * k + 3) = SpecTriadChars(TriadOf(v, k))
           /\ \A k \in 0..2 : \A j \in (0..2) \ {k} : \A t \in 0..7 :
                SubSeq(mode_to_symbolic(WithTriad(v, j, t)), 3 * k + 1, 3 * k + 3)
                    = SubSeq(sym, 3 * k + 1, 3 * k + 3)

C9_Witness ==
    fpc = "done" /\ v = 341 /\ sym = <<"r", "-", "x", "-", "w", "-", "r", "-", "x">>

\* C10: in every run that reaches Compute, mode and umask are in [0, 511],
\* the effective value is in [0, 511], and the reported octal rendering has
\* exactly 4 characters, the first being '0'.
C10_ComputeRanges ==
    /\ pc \in {"Compute", "Report", "Done"}
           => (mode \in 0..511 /\ umask \in 0..511)
    /\ pc \in {"Report", "Done"} => effective \in 0..511
    /\ pc = "Done"
           => /\ Len(out[Len(out) - 1].text) = 4
              /\ out[Len(out) - 1].text[1] = "0"
              /\ out[Len(out) - 1].text = int_to_octal4(effective)

C10_Witness ==
    /\ pc = "Done" /\ mode = 438 /\ umask = 27 /\ effective = 420
    /\ out[Len(out) - 1].text = <<"0", "6", "4", "4">>

====
